---- MODULE Spec2Model ----
(***************************************************************************)
(* Model of czepes/astar-eller-maze: the Eller maze generator (EllerMaze  *)
(* in src/maze.py), the graph view of the finished maze (as_graph) and    *)
(* the A* path finder (solve_maze).                                        *)
(*                                                                         *)
(* Python lists are modelled as functions on 0 .. n-1 so that the model   *)
(* keeps the indices and coordinates of the code.  A cell object of the   *)
(* working row is identified by its column: create_row makes `width'      *)
(* objects and every later row reuses the same objects at the same        *)
(* positions of the list `row'.                                            *)
(***************************************************************************)
EXTENDS Integers, FiniteSets, Sequences, TLC

VARIABLES
    args,       \* the arguments EllerMaze(width, height) was called with; in
                \* SpecCli the command line and the namespace parsed from it
    width,      \* self.width
    height,     \* self.height
    row,        \* the working row: column -> cell object (mark and walls)
    sets,       \* self.sets: mark -> set of cells (columns)
    list_maze,  \* self.list_maze: frozen rows of wall records
    pc,         \* position of the generator
    i,          \* row index of the loop of build_maze
    k,          \* index of the loop of the row method that is running
    graph_maze, \* the graph as_graph returned, or the graph solve_maze is given
    twin,       \* row, sets and list_maze of a second run of build_maze
    entry,      \* solve_maze: where to start
    out,        \* solve_maze: where to finish
    walker,     \* solve_maze: the entries of the priority queue
    came_from,  \* solve_maze: cell -> the cell it was reached from
    score_of,   \* solve_maze: cell -> steps from entry on the best path known
    current,    \* solve_maze: the cell popped last
    route       \* solve_maze: the list that is returned

genVars == <<args, width, height, row, sets, list_maze, i, k>>
solveVars == <<entry, out, walker, came_from, score_of, current, route>>
vars == <<genVars, pc, graph_maze, twin, solveVars>>

----------------------------------------------------------------------------
(* Bounds of the model and constants of the program *)

MIN_SIZE == 3
MAX_SIZE == 100

\* Largest width requested in Spec and SpecTwin.
MaxWidth == 3

\* Number of columns of the grids whose graphs SpecSolve gives to solve_maze.
SolveCols == 4

\* Number of columns of the grids whose graphs SpecSolveFair gives to
\* solve_maze.
LiveCols == 2

\* Largest set of which the model takes every iteration order.
MaxPermuted == 4

\* Largest width and height requested on the command lines of SpecCli.
MaxCliSize == 4

\* Outcomes of random.randint(0, 99) that the model draws: both sides of the
\* threshold 50 and the ends of the range.
Rolls == {0, 49, 50, 99}

\* Python's None
None == << >>

----------------------------------------------------------------------------
(* Python lists as functions on 0 .. n-1 *)

EmptyList == [n \in {} |-> n]

Len0(l) == Cardinality(DOMAIN l)

Append0(l, x) == [n \in 0 .. Len0(l) |-> IF n < Len0(l) THEN l[n] ELSE x]

Min2(a, b) == IF a < b THEN a ELSE b
Max2(a, b) == IF a > b THEN a ELSE b

\* Every order in which the members of the set S can be iterated
RECURSIVE AllOrders(_)
AllOrders(S) ==
    IF S = {} THEN {<< >>}
    ELSE UNION {{<<x>> \o o : o \in AllOrders(S \ {x})} : x \in S}

\* The cells (columns) of the set S, leftmost first and rightmost first
Ascending(S) ==
    SelectSeq([n \in 1 .. width |-> n - 1], LAMBDA x : x \in S)

Descending(S) ==
    SelectSeq([n \in 1 .. width |-> width - n], LAMBDA x : x \in S)

\* The iteration order of a Python set of objects is not fixed by the
\* program: the model takes every order of a set of at most MaxPermuted
\* members, and the two sorted orders of a larger set of cells.
Orders(S) ==
    IF Cardinality(S) <= MaxPermuted THEN AllOrders(S)
    ELSE {Ascending(S), Descending(S)}

----------------------------------------------------------------------------
(* EllerMaze.__init__: the clamp of one dimension *)

\* a clamp without the upper end
ClampSize_no_maximum(v) == Max2(v, MIN_SIZE)

ClampSize(v) == Min2(Max2(v, MIN_SIZE), MAX_SIZE)

(* The phase build_maze passes to build_next_row for row index n *)
Phase(n) ==
    IF n = 0 THEN "start"
    ELSE IF n = height - 1 THEN "end"
    ELSE "active"

----------------------------------------------------------------------------
(* The row set tracker and the row methods.  The order in which Python     *)
(* iterates a set of cell objects is not fixed by the program, so an       *)
(* operator that iterates a set yields the SET of the outcomes of all      *)
(* iteration orders; an outcome is the pair of the row and the sets after  *)
(* the call.                                                                *)

\* a loop `while mark in self.sets' that passes the keys of empty sets, too
\* (the keys of self.sets are 1 .. len(self.sets))
NewMark_unused_key(S, mark) == Cardinality(DOMAIN S) + 1

\* the while loop of new_set
RECURSIVE NewMark(_, _)
NewMark(S, mark) ==
    IF mark \in DOMAIN S /\ Cardinality(S[mark]) > 0
    THEN NewMark(S, mark + 1)
    ELSE mark

new_set(R, S, cell) ==
    LET mark == NewMark(S, 1)
        S1 == IF mark \notin DOMAIN S
              THEN [m \in DOMAIN S \cup {mark} |->
                        IF m = mark THEN {} ELSE S[m]]
              ELSE S
    IN  [row  |-> [R EXCEPT ![cell].mark = mark],
         sets |-> [S1 EXCEPT ![mark] = S1[mark] \cup {cell}]]

\* `for cell in union_set: cell.mark = mark', in the iteration order ord
\* (the assignment to a cell that has the mark already changes nothing)
RECURSIVE SetMarks(_, _, _)
SetMarks(R, ord, mark) ==
    IF ord = << >> THEN R
    ELSE IF R[Head(ord)].mark = mark THEN SetMarks(R, Tail(ord), mark)
    ELSE SetMarks([R EXCEPT ![Head(ord)].mark = mark], Tail(ord), mark)

\* union_sets(mark, self.sets[other]): the argument cell_set is the set
\* object bound to the key `other', which cell_set.clear() empties in place.
union_sets(R, S, mark, other) ==
    LET union_set == S[mark] \cup S[other]
    IN  {[row  |-> SetMarks(R, ord, mark),
          sets |-> [S EXCEPT ![other] = {}, ![mark] = union_set]]
            : ord \in Orders(union_set)}

\* a test that looks at the first cell of the iteration only
AllBottom_first_only(R, ord) == ord = << >> \/ R[Head(ord)].bottom

\* `all(cell.bottom for cell in cell_set)', in the iteration order ord
RECURSIVE AllBottom(_, _)
AllBottom(R, ord) ==
    IF ord = << >> THEN TRUE
    ELSE IF ~R[Head(ord)].bottom THEN FALSE
    ELSE AllBottom(R, Tail(ord))

\* create_row that takes column `width' for the last column
create_row_off_by_one(R, S, n) ==
    LET cell == [mark |-> 0, top |-> TRUE, right |-> (n = width),
                 bottom |-> FALSE, left |-> (n = 0)]
    IN  new_set(Append0(R, cell), S, n)

\* create_row, iteration n
create_row(R, S, n) ==
    LET cell == [mark |-> 0, top |-> TRUE, right |-> (n = width - 1),
                 bottom |-> FALSE, left |-> (n = 0)]
    IN  new_set(Append0(R, cell), S, n)

\* update_row that leaves the cell in the set it had
update_row_no_detach(R, S, n) ==
    LET cell == R[n]
        R1 == [R EXCEPT ![n].top = cell.bottom,
                        ![n].right = (n = width - 1),
                        ![n].left = (n = 0)]
    IN  IF cell.bottom
        THEN LET r == new_set(R1, S, n)
             IN  [row  |-> [r.row EXCEPT ![n].bottom = FALSE],
                  sets |-> r.sets]
        ELSE [row |-> R1, sets |-> S]

\* update_row that copies the bottom to the top after it has reset the bottom
update_row_top_after_reset(R, S, n) ==
    LET cell == R[n]
        R1 == [R EXCEPT ![n].top = FALSE,
                        ![n].right = (n = width - 1),
                        ![n].left = (n = 0)]
    IN  IF cell.bottom
        THEN LET S1 == [S EXCEPT ![cell.mark] = S[cell.mark] \ {n}]
                 r  == new_set(R1, S1, n)
             IN  [row  |-> [r.row EXCEPT ![n].bottom = FALSE],
                  sets |-> r.sets]
        ELSE [row |-> R1, sets |-> S]

\* update_row without `cell.bottom = False'
update_row_keep_bottom(R, S, n) ==
    LET cell == R[n]
        R1 == [R EXCEPT ![n].top = cell.bottom,
                        ![n].right = (n = width - 1),
                        ![n].left = (n = 0)]
    IN  IF cell.bottom
        THEN LET S1 == [S EXCEPT ![cell.mark] = S[cell.mark] \ {n}]
             IN  new_set(R1, S1, n)
        ELSE [row |-> R1, sets |-> S]

\* update_row, iteration n
update_row(R, S, n) ==
    LET cell == R[n]
        R1 == [R EXCEPT ![n].top = cell.bottom,
                        ![n].right = (n = width - 1),
                        ![n].left = (n = 0)]
    IN  IF cell.bottom
        THEN LET S1 == [S EXCEPT ![cell.mark] = S[cell.mark] \ {n}]
                 r  == new_set(R1, S1, n)
             IN  [row  |-> [r.row EXCEPT ![n].bottom = FALSE],
                  sets |-> r.sets]
        ELSE [row |-> R1, sets |-> S]

\* finish_row that removes the wall without the test `not in cell_set'
finish_row_carve_all(R, S, n) ==
    LET R1 == [R EXCEPT ![n].bottom = TRUE, ![n + 1].bottom = TRUE]
    IN  union_sets([R1 EXCEPT ![n].right = FALSE, ![n + 1].left = FALSE],
                   S, R[n].mark, R[n + 1].mark)

\* finish_row that removes the wall and leaves the sets as they are
finish_row_no_union(R, S, n) ==
    LET cell_set == S[R[n].mark]
        R1 == [R EXCEPT ![n].bottom = TRUE, ![n + 1].bottom = TRUE]
    IN  IF (n + 1) \notin cell_set
        THEN {[row  |-> [R1 EXCEPT ![n].right = FALSE, ![n + 1].left = FALSE],
               sets |-> S]}
        ELSE {[row |-> R1, sets |-> S]}

\* finish_row, iteration n
finish_row(R, S, n) ==
    LET cell_set == S[R[n].mark]
        R1 == [R EXCEPT ![n].bottom = TRUE, ![n + 1].bottom = TRUE]
    IN  IF (n + 1) \notin cell_set
        THEN union_sets([R1 EXCEPT ![n].right = FALSE, ![n + 1].left = FALSE],
                        S, R[n].mark, R[n + 1].mark)
        ELSE {[row |-> R1, sets |-> S]}

\* add_right_walls without the test `if next_cell in cell_set'
add_right_walls_unchecked(R, S, n, roll) ==
    IF roll >= 50
    THEN {[row  |-> [R EXCEPT ![n].right = TRUE, ![n + 1].left = TRUE],
           sets |-> S]}
    ELSE union_sets(R, S, R[n].mark, R[n + 1].mark)

\* add_right_walls whose random wall is not put on the side of next_cell
add_right_walls_unmirrored(R, S, n, roll) ==
    LET cell_set == S[R[n].mark]
    IN  IF (n + 1) \in cell_set
        THEN {[row  |-> [R EXCEPT ![n].right = TRUE, ![n + 1].left = TRUE],
               sets |-> S]}
        ELSE IF roll >= 50
        THEN {[row |-> [R EXCEPT ![n].right = TRUE], sets |-> S]}
        ELSE union_sets(R, S, R[n].mark, R[n + 1].mark)

\* add_right_walls, iteration n, with the outcome roll of random.randint
add_right_walls(R, S, n, roll) ==
    LET cell_set == S[R[n].mark]
        walled == [row  |-> [R EXCEPT ![n].right = TRUE, ![n + 1].left = TRUE],
                   sets |-> S]
    IN  IF (n + 1) \in cell_set THEN {walled}
        ELSE IF roll >= 50 THEN {walled}
        ELSE union_sets(R, S, R[n].mark, R[n + 1].mark)

\* a test that looks at the size of the set only
NoPathDown_single_only(R, cell_set) == {Cardinality(cell_set) = 1}

\* the test of add_bottom_walls that forces the bottom of the cell open
NoPathDown(R, cell_set) ==
    IF Cardinality(cell_set) = 1 THEN {TRUE}
    ELSE {AllBottom(R, ord) : ord \in Orders(cell_set)}

\* add_bottom_walls, iteration n, with the outcome roll of random.randint
add_bottom_walls(R, S, n, roll) ==
    LET cell_set == S[R[n].mark]
        R1 == IF roll >= 50 THEN [R EXCEPT ![n].bottom = TRUE] ELSE R
    IN  {[row  |-> IF force THEN [R1 EXCEPT ![n].bottom = FALSE] ELSE R1,
          sets |-> S] : force \in NoPathDown(R1, cell_set)}

\* the copy of the walls of the row that build_next_row appends
FrozenRow(R) ==
    [n \in DOMAIN R |->
        [top |-> R[n].top, right |-> R[n].right,
         bottom |-> R[n].bottom, left |-> R[n].left]]

----------------------------------------------------------------------------
(* as_graph *)

\* the directions of a wall record that are not blocked
Passable(cell) ==
    {d \in {"top", "right", "bottom", "left"} : ~cell[d]}

\* Step with the offset of `top' for `bottom' as well
Step_bottom_up(y, x, d) ==
    CASE d = "top"    -> <<y - 1, x>>
      [] d = "right"  -> <<y, x + 1>>
      [] d = "bottom" -> <<y - 1, x>>
      [] d = "left"   -> <<y, x - 1>>

\* the coordinate one step from (y, x) in direction d
Step(y, x, d) ==
    CASE d = "top"    -> <<y - 1, x>>
      [] d = "right"  -> <<y, x + 1>>
      [] d = "bottom" -> <<y + 1, x>>
      [] d = "left"   -> <<y, x - 1>>

as_graph(maze, h, w) ==
    [c \in (0 .. h - 1) \X (0 .. w - 1) |->
        {Step(c[1], c[2], d) : d \in Passable(maze[c[1]][c[2]])}]

----------------------------------------------------------------------------
(* solve_maze *)

\* distance(first, second) is the square root of this number; the model
\* keeps the number under the root, so that priorities compare exactly
distance(first, second) ==
    (second[2] - first[2]) * (second[2] - first[2])
        + (second[1] - first[1]) * (second[1] - first[1])

\* A priority [score |-> g, root |-> d] stands for the float g + sqrt(d).
\* PrioLess(p, q) is g1 + sqrt(d1) < g2 + sqrt(d2), decided in integers by
\* squaring.  On grids of at most MAX_SIZE x MAX_SIZE cells two such sums
\* that differ as reals differ by far more than the rounding of a double,
\* and two that are equal as reals are both integers, so this is the order
\* of the floats the priority queue compares.
PrioLess(p, q) ==
    LET D == q.score - p.score
        L == p.root - q.root - D * D
        M == q.root - p.root - D * D
    IN  IF D >= 0
        THEN L < 0 \/ 4 * D * D * q.root > L * L
        ELSE M > 0 /\ 4 * D * D * p.root < M * M

\* the order of Python on the tuples (row, column)
CellLess(a, b) == a[1] < b[1] \/ (a[1] = b[1] /\ a[2] < b[2])

\* the order of Python on the queue entries (priority, cell)
EntryLess(a, b) ==
    \/ PrioLess(a[1], b[1])
    \/ ~PrioLess(b[1], a[1]) /\ CellLess(a[2], b[2])

\* walker.get(): the smallest entry.  The queue never holds two equal
\* entries, since a cell is put again only with a strictly smaller score,
\* so the set of its entries is the queue.
Get(w) == CHOOSE e \in w : \A f \in w \ {e} : EntryLess(e, f)

\* d[key] = v on a dict
Put(d, key, v) == [x \in DOMAIN d \cup {key} |-> IF x = key THEN v ELSE d[x]]

\* the body with the heuristic alone as the priority
Relax_heuristic_only(st, cur, nieghbor) ==
    LET new_score == st.score_of[cur] + 1
        priority == [score |-> 0, root |-> distance(nieghbor, out)]
    IN  IF nieghbor \notin DOMAIN st.came_from
           \/ new_score < st.score_of[nieghbor]
        THEN [walker    |-> st.walker \cup {<<priority, nieghbor>>},
              score_of  |-> Put(st.score_of, nieghbor, new_score),
              came_from |-> Put(st.came_from, nieghbor, cur)]
        ELSE st

\* the body of `for nieghbor in graph_maze[current]' for one neighbour
Relax(st, cur, nieghbor) ==
    LET new_score == st.score_of[cur] + 1
        priority == [score |-> new_score, root |-> distance(nieghbor, out)]
    IN  IF nieghbor \notin DOMAIN st.came_from
           \/ new_score < st.score_of[nieghbor]
        THEN [walker    |-> st.walker \cup {<<priority, nieghbor>>},
              score_of  |-> Put(st.score_of, nieghbor, new_score),
              came_from |-> Put(st.came_from, nieghbor, cur)]
        ELSE st

\* the loop over the neighbours of cur in the iteration order ord
RECURSIVE RelaxAll(_, _, _)
RelaxAll(st, cur, ord) ==
    IF ord = << >> THEN st
    ELSE RelaxAll(Relax(st, cur, Head(ord)), cur, Tail(ord))

\* an iteration that reads the smallest entry and leaves it in the queue
SearchIteration_peek(w, cf, so) ==
    LET e == Get(w)
        cur == e[2]
        st == [walker |-> w, score_of |-> so, came_from |-> cf]
    IN  {[current |-> cur] @@ RelaxAll(st, cur, ord)
            : ord \in Orders(graph_maze[cur])}

\* one iteration of the while loop of the search: the outcomes of all
\* iteration orders of the neighbour set
SearchIteration(w, cf, so) ==
    LET e == Get(w)
        cur == e[2]
        st == [walker |-> w \ {e}, score_of |-> so, came_from |-> cf]
    IN  {[current |-> cur] @@ RelaxAll(st, cur, ord)
            : ord \in Orders(graph_maze[cur])}

\* a reverse that leaves the list as it is
Reverse_not(s) == s

\* route.reverse()
Reverse(s) == [n \in 1 .. Len(s) |-> s[Len(s) + 1 - n]]

----------------------------------------------------------------------------
(* The generator as a state machine *)

NoTwin == [row |-> EmptyList, sets |-> EmptyList, list_maze |-> EmptyList]

SolveIdle ==
    /\ entry = None
    /\ out = None
    /\ walker = {}
    /\ came_from = EmptyList
    /\ score_of = EmptyList
    /\ current = None
    /\ route = << >>

GenIdle ==
    /\ width = 0
    /\ height = 0
    /\ row = EmptyList
    /\ sets = EmptyList
    /\ list_maze = EmptyList
    /\ i = 0
    /\ k = 0

\* the requests of Spec and SpecTwin: sizes that the clamp leaves alone
Requests == [width : MIN_SIZE .. MaxWidth, height : {MIN_SIZE}]

Init ==
    /\ args \in Requests
    /\ GenIdle
    /\ pc = "init"
    /\ graph_maze = EmptyList
    /\ twin = NoTwin
    /\ SolveIdle

\* where build_next_row goes when the loop of the method at p has ended
AfterMethod(p) ==
    CASE p \in {"create_row", "update_row"} -> "add_right_walls"
      [] p = "add_right_walls" -> "add_bottom_walls"
      [] p = "add_bottom_walls" ->
            IF Phase(i) = "end" THEN "finish_row" ELSE "append"
      [] p = "finish_row" -> "append"

\* the loop index and position after iteration k of a loop of n iterations
Advance(n) ==
    IF k + 1 < n
    THEN /\ k' = k + 1
         /\ pc' = pc
    ELSE /\ k' = 0
         /\ pc' = AfterMethod(pc)

\* the outcome r of a row method becomes the state of the run
Run(r) == row' = r.row /\ sets' = r.sets

\* __init__ up to the first call of build_next_row
EllerMazeInit ==
    /\ pc = "init"
    /\ height' = ClampSize(args.height)
    /\ width' = ClampSize(args.width)
    /\ list_maze' = EmptyList
    /\ sets' = EmptyList
    /\ row' = EmptyList
    /\ i' = 0
    /\ k' = 0
    /\ pc' = "create_row"
    /\ UNCHANGED <<args, graph_maze, twin, solveVars>>

CreateRowStep ==
    /\ pc = "create_row"
    /\ Run(create_row(row, sets, k))
    /\ Advance(width)
    /\ UNCHANGED <<args, width, height, list_maze, i, graph_maze, twin, solveVars>>

UpdateRowStep ==
    /\ pc = "update_row"
    /\ Run(update_row(row, sets, k))
    /\ Advance(width)
    /\ UNCHANGED <<args, width, height, list_maze, i, graph_maze, twin, solveVars>>

AddRightWallsStep ==
    /\ pc = "add_right_walls"
    /\ \E roll \in Rolls : \E r \in add_right_walls(row, sets, k, roll) : Run(r)
    /\ Advance(Len0(row) - 1)
    /\ UNCHANGED <<args, width, height, list_maze, i, graph_maze, twin, solveVars>>

AddBottomWallsStep ==
    /\ pc = "add_bottom_walls"
    /\ \E roll \in Rolls : \E r \in add_bottom_walls(row, sets, k, roll) : Run(r)
    /\ Advance(Len0(row))
    /\ UNCHANGED <<args, width, height, list_maze, i, graph_maze, twin, solveVars>>

FinishRowStep ==
    /\ pc = "finish_row"
    /\ \E r \in finish_row(row, sets, k) : Run(r)
    /\ Advance(width - 1)
    /\ UNCHANGED <<args, width, height, list_maze, i, graph_maze, twin, solveVars>>

\* an append of the live row: every row of list_maze is the working row
AppendRow_aliased ==
    /\ pc = "append"
    /\ list_maze' = [n \in 0 .. Len0(list_maze) |-> FrozenRow(row)]
    /\ i' = i + 1
    /\ pc' = IF i + 1 < height THEN "update_row" ELSE "built"
    /\ UNCHANGED <<args, width, height, row, sets, k, graph_maze, twin, solveVars>>

\* the end of build_next_row and the step of the loop of build_maze
AppendRow ==
    /\ pc = "append"
    /\ list_maze' = Append0(list_maze, FrozenRow(row))
    /\ i' = i + 1
    /\ pc' = IF i + 1 < height THEN "update_row" ELSE "built"
    /\ UNCHANGED <<args, width, height, row, sets, k, graph_maze, twin, solveVars>>

\* maze.as_graph() on the built maze
AsGraph ==
    /\ pc = "built"
    /\ graph_maze' = as_graph(list_maze, height, width)
    /\ pc' = "graph"
    /\ UNCHANGED <<genVars, twin, solveVars>>

Next ==
    \/ EllerMazeInit
    \/ CreateRowStep
    \/ UpdateRowStep
    \/ AddRightWallsStep
    \/ AddBottomWallsStep
    \/ FinishRowStep
    \/ AppendRow
    \/ AsGraph

Spec == Init /\ [][Next]_vars

----------------------------------------------------------------------------
(* Two runs of build_maze with the same dimensions that receive the same   *)
(* random outcomes; each run iterates its sets in an order of its own.     *)

\* the outcome r of a row method becomes the state of the second run
TwinRun(r) == twin' = [twin EXCEPT !.row = r.row, !.sets = r.sets]

TwinCreateRowStep ==
    /\ pc = "create_row"
    /\ Run(create_row(row, sets, k))
    /\ TwinRun(create_row(twin.row, twin.sets, k))
    /\ Advance(width)
    /\ UNCHANGED <<args, width, height, list_maze, i, graph_maze, solveVars>>

TwinUpdateRowStep ==
    /\ pc = "update_row"
    /\ Run(update_row(row, sets, k))
    /\ TwinRun(update_row(twin.row, twin.sets, k))
    /\ Advance(width)
    /\ UNCHANGED <<args, width, height, list_maze, i, graph_maze, solveVars>>

TwinAddRightWallsStep ==
    /\ pc = "add_right_walls"
    /\ \E roll \in Rolls :
        /\ \E r \in add_right_walls(row, sets, k, roll) : Run(r)
        /\ \E r \in add_right_walls(twin.row, twin.sets, k, roll) : TwinRun(r)
    /\ Advance(Len0(row) - 1)
    /\ UNCHANGED <<args, width, height, list_maze, i, graph_maze, solveVars>>

TwinAddBottomWallsStep ==
    /\ pc = "add_bottom_walls"
    /\ \E roll \in Rolls :
        /\ \E r \in add_bottom_walls(row, sets, k, roll) : Run(r)
        /\ \E r \in add_bottom_walls(twin.row, twin.sets, k, roll) : TwinRun(r)
    /\ Advance(Len0(row))
    /\ UNCHANGED <<args, width, height, list_maze, i, graph_maze, solveVars>>

TwinFinishRowStep ==
    /\ pc = "finish_row"
    /\ \E r \in finish_row(row, sets, k) : Run(r)
    /\ \E r \in finish_row(twin.row, twin.sets, k) : TwinRun(r)
    /\ Advance(width - 1)
    /\ UNCHANGED <<args, width, height, list_maze, i, graph_maze, solveVars>>

TwinAppendRow ==
    /\ pc = "append"
    /\ list_maze' = Append0(list_maze, FrozenRow(row))
    /\ twin' = [twin EXCEPT
                    !.list_maze = Append0(twin.list_maze, FrozenRow(twin.row))]
    /\ i' = i + 1
    /\ pc' = IF i + 1 < height THEN "update_row" ELSE "built"
    /\ UNCHANGED <<args, width, height, row, sets, k, graph_maze, solveVars>>

NextTwin ==
    \/ EllerMazeInit
    \/ TwinCreateRowStep
    \/ TwinUpdateRowStep
    \/ TwinAddRightWallsStep
    \/ TwinAddBottomWallsStep
    \/ TwinFinishRowStep
    \/ TwinAppendRow

SpecTwin == Init /\ [][NextTwin]_vars

----------------------------------------------------------------------------
(* The generator on requests outside MIN_SIZE .. MAX_SIZE.  A maze of      *)
(* MAX_SIZE cells in a row is built for one sequence of random outcomes:   *)
(* the outcome of a call is fixed by the row and the column of the call.   *)

PatternRoll(r, c) == IF (r + 2 * c) % 3 = 0 THEN 99 ELSE 0

\* sizes below and at the lower end of the supported range, and sizes
\* around and far above its upper end
SmallSizes == {-1, 0, MIN_SIZE - 1, MIN_SIZE}
LargeSizes == {MAX_SIZE - 1, MAX_SIZE + 1, 10 * MAX_SIZE}

\* the requests of SpecClamp: at most one of the two sizes is large
ClampRequests ==
    [width : SmallSizes, height : SmallSizes]
        \cup [width : LargeSizes, height : {MIN_SIZE - 1}]
        \cup [width : {MIN_SIZE - 1}, height : LargeSizes]

InitClamp ==
    /\ args \in ClampRequests
    /\ GenIdle
    /\ pc = "init"
    /\ graph_maze = EmptyList
    /\ twin = NoTwin
    /\ SolveIdle

ClampAddRightWallsStep ==
    /\ pc = "add_right_walls"
    /\ \E r \in add_right_walls(row, sets, k, PatternRoll(i, k)) : Run(r)
    /\ Advance(Len0(row) - 1)
    /\ UNCHANGED <<args, width, height, list_maze, i, graph_maze, twin, solveVars>>

ClampAddBottomWallsStep ==
    /\ pc = "add_bottom_walls"
    /\ \E r \in add_bottom_walls(row, sets, k, PatternRoll(i, k)) : Run(r)
    /\ Advance(Len0(row))
    /\ UNCHANGED <<args, width, height, list_maze, i, graph_maze, twin, solveVars>>

NextClamp ==
    \/ EllerMazeInit
    \/ CreateRowStep
    \/ UpdateRowStep
    \/ ClampAddRightWallsStep
    \/ ClampAddBottomWallsStep
    \/ FinishRowStep
    \/ AppendRow

SpecClamp == InitClamp /\ [][NextClamp]_vars

----------------------------------------------------------------------------
(* solve_maze as a state machine, on the graphs of SolveGraphs *)

SolveCells == (0 .. 1) \X (0 .. SolveCols - 1)

\* the pairs of orthogonally adjacent cells
Adjacent(c, d) ==
    \/ d[1] = c[1] /\ (d[2] = c[2] + 1 \/ d[2] = c[2] - 1)
    \/ d[2] = c[2] /\ (d[1] = c[1] + 1 \/ d[1] = c[1] - 1)

GridEdges == {{c[1], c[2]} : c \in {p \in SolveCells \X SolveCells : Adjacent(p[1], p[2])}}

\* the symmetric graph on SolveCells with the edges E
GraphOf(E) == [c \in SolveCells |-> {d \in SolveCells : {c, d} \in E}]

\* a coordinate that is no key of the graph
Outside == <<0, SolveCols>>

InitSolve ==
    /\ args = [width |-> 0, height |-> 0]
    /\ GenIdle
    /\ twin = NoTwin
    /\ pc = "solve_maze"
    /\ \E E \in SUBSET GridEdges : graph_maze = GraphOf(E)
    /\ entry \in SolveCells
    /\ out \in SolveCells \cup {Outside}
    /\ walker = {}
    /\ came_from = EmptyList
    /\ score_of = EmptyList
    /\ current = None
    /\ route = << >>

\* the set-up before the while loop
SolveMazeBegin ==
    /\ pc = "solve_maze"
    /\ walker' = {<<[score |-> 0, root |-> 0], entry>>}
    /\ came_from' = (entry :> None)
    /\ score_of' = (entry :> 0)
    /\ current' = None
    /\ pc' = "search"
    /\ UNCHANGED <<genVars, graph_maze, twin, entry, out, route>>

\* one iteration of `while current != out and not walker.empty()'
SearchStep ==
    /\ pc = "search"
    /\ current # out /\ walker # {}
    /\ \E r \in SearchIteration(walker, came_from, score_of) :
        /\ current' = r.current
        /\ walker' = r.walker
        /\ came_from' = r.came_from
        /\ score_of' = r.score_of
    /\ UNCHANGED <<genVars, pc, graph_maze, twin, entry, out, route>>

\* the while loop ends and the route starts with the cell popped last
SearchEnd_with_current ==
    /\ pc = "search"
    /\ ~(current # out /\ walker # {})
    /\ route' = <<current>>
    /\ pc' = "walk"
    /\ UNCHANGED <<genVars, graph_maze, twin, entry, out, walker, came_from,
                   score_of, current>>

\* the while loop ends
SearchEnd ==
    /\ pc = "search"
    /\ ~(current # out /\ walker # {})
    /\ route' = << >>
    /\ pc' = "walk"
    /\ UNCHANGED <<genVars, graph_maze, twin, entry, out, walker, came_from,
                   score_of, current>>

\* one iteration of `while current != entry'
WalkStep ==
    /\ pc = "walk"
    /\ current # entry
    /\ route' = Append(route, current)
    /\ current' = came_from[current]
    /\ UNCHANGED <<genVars, pc, graph_maze, twin, entry, out, walker, came_from,
                   score_of>>

\* route.append(entry); route.reverse(); return route
SolveReturn ==
    /\ pc = "walk"
    /\ current = entry
    /\ route' = Reverse(Append(route, entry))
    /\ pc' = "returned"
    /\ UNCHANGED <<genVars, graph_maze, twin, entry, out, walker, came_from,
                   score_of, current>>

NextSolve ==
    \/ SolveMazeBegin
    \/ SearchStep
    \/ SearchEnd
    \/ WalkStep
    \/ SolveReturn

SpecSolve == InitSolve /\ [][NextSolve]_vars

----------------------------------------------------------------------------
(* solve_maze as a program that runs on: the interpreter takes the next    *)
(* step of the function whenever there is one.  The graphs are those of a  *)
(* grid of two rows of LiveCols cells.                                     *)

LiveCells == (0 .. 1) \X (0 .. LiveCols - 1)

LiveEdges == {{c[1], c[2]} : c \in {p \in LiveCells \X LiveCells : Adjacent(p[1], p[2])}}

\* the symmetric graph on LiveCells with the edges E
LiveGraphOf(E) == [c \in LiveCells |-> {d \in LiveCells : {c, d} \in E}]

InitSolveFair ==
    /\ args = [width |-> 0, height |-> 0]
    /\ GenIdle
    /\ twin = NoTwin
    /\ pc = "solve_maze"
    /\ \E E \in SUBSET LiveEdges : graph_maze = LiveGraphOf(E)
    /\ entry \in LiveCells
    /\ out \in LiveCells \cup {<<0, LiveCols>>}
    /\ walker = {}
    /\ came_from = EmptyList
    /\ score_of = EmptyList
    /\ current = None
    /\ route = << >>

SpecSolveFair == InitSolveFair /\ [][NextSolve]_vars /\ WF_vars(NextSolve)

----------------------------------------------------------------------------
(* The command line `width height solve [xs [ys [xe [ye]]]]' of client.py: *)
(* main parses it, run builds the maze and calls solve_maze.  The maze is  *)
(* built for the sequence of random outcomes of SpecClamp.                 *)

\* values of a coordinate given on the command line: left of the grid,
\* inside every grid, and beyond the largest grid
CliCoords == {-1, 1, MAX_SIZE + 1}

\* the coordinates given after `solve': nargs='?' positionals are filled
\* from the left, so those given are xs, then ys, then xe, then ye
CommandLines == UNION {[1 .. n -> CliCoords] : n \in 0 .. 4}

CliSizes == MIN_SIZE .. MaxCliSize

InitCli ==
    /\ args \in [width : CliSizes, height : CliSizes, argv : CommandLines]
    /\ GenIdle
    /\ pc = "main"
    /\ graph_maze = EmptyList
    /\ twin = NoTwin
    /\ SolveIdle

\* the value of the n-th optional positional: the one given, or its default
Positional(argv, n, default) == IF n <= Len(argv) THEN argv[n] ELSE default

\* parser.parse_args() with the defaults of the arguments of solve_parser
ParseArgs ==
    /\ pc = "main"
    /\ args' = [width  |-> args.width,
                height |-> args.height,
                argv   |-> args.argv,
                xs     |-> Positional(args.argv, 1, MIN_SIZE),
                ys     |-> Positional(args.argv, 2, MIN_SIZE),
                xe     |-> Positional(args.argv, 3, MAX_SIZE),
                ye     |-> Positional(args.argv, 4, MAX_SIZE)]
    /\ pc' = "init"
    /\ UNCHANGED <<width, height, row, sets, list_maze, i, k, graph_maze, twin,
                   solveVars>>

\* parse_coord of run, with the width and height of the built maze
parse_coord(r, c) ==
    <<Min2(Max2(c, 0), height - 1), Min2(Max2(r, 0), width - 1)>>

\* run, from the built maze to the call of solve_maze
RunSolve ==
    /\ pc = "built"
    /\ graph_maze' = as_graph(list_maze, height, width)
    /\ entry' = parse_coord(args.xs, args.ys)
    /\ out' = parse_coord(args.xe, args.ye)
    /\ pc' = "solve_maze"
    /\ UNCHANGED <<genVars, twin, walker, came_from, score_of, current, route>>

NextCli ==
    \/ ParseArgs
    \/ EllerMazeInit
    \/ CreateRowStep
    \/ UpdateRowStep
    \/ ClampAddRightWallsStep
    \/ ClampAddBottomWallsStep
    \/ FinishRowStep
    \/ AppendRow
    \/ RunSolve
    \/ SolveMazeBegin
    \/ SearchStep
    \/ SearchEnd
    \/ WalkStep
    \/ SolveReturn

SpecCli == InitCli /\ [][NextCli]_vars

----------------------------------------------------------------------------
(* Properties of the generated maze *)

\* the cells of the maze
Cells == (0 .. height - 1) \X (0 .. width - 1)

\* build_maze has returned
Built == pc \in {"built", "graph"}

\* the keys of G that can be reached from the cells of seen
RECURSIVE ReachFrom(_, _)
ReachFrom(G, seen) ==
    LET more == seen \cup UNION {G[c] : c \in seen \cap DOMAIN G}
    IN  IF more = seen THEN seen ELSE ReachFrom(G, more)

\* the edges of G, each counted once for the two directions
EdgesOf(G) ==
    UNION {{{a, b} : b \in G[a]} : a \in DOMAIN G}

\* C1: the graph as_graph returns for a built maze is connected (every cell
\* is reached from every cell) and has exactly height * width - 1
\* undirected edges, so it has no cycle.
C1_PerfectMaze ==
    pc = "graph" =>
        /\ DOMAIN graph_maze = Cells
        /\ \A a \in Cells : ReachFrom(graph_maze, {a}) = Cells
        /\ Cardinality(EdgesOf(graph_maze)) = height * width - 1

\* a graph was made of a maze in which a right wall was left out by a roll
\* in the first row and a bottom wall was placed in it
C1_Witness ==
    /\ pc = "graph"
    /\ \E c \in 0 .. width - 2 : ~list_maze[0][c].right
    /\ \E c \in 0 .. width - 1 : list_maze[0][c].bottom

\* C5: in a built maze the walls are mirrored: the right flag of a cell is
\* the left flag of the cell to its right, and the bottom flag of a cell is
\* the top flag of the cell below it.
C5_WallsMirrored ==
    Built =>
        /\ \A r \in 0 .. height - 1 : \A c \in 0 .. width - 2 :
              list_maze[r][c].right = list_maze[r][c + 1].left
        /\ \A r \in 0 .. height - 2 : \A c \in 0 .. width - 1 :
              list_maze[r][c].bottom = list_maze[r + 1][c].top

\* a built maze with an open and a closed wall between cells of a row, and
\* an open and a closed wall between cells of a column
C5_Witness ==
    /\ Built
    /\ \E r \in 0 .. height - 1 : \E c \in 0 .. width - 2 : list_maze[r][c].right
    /\ \E r \in 0 .. height - 1 : \E c \in 0 .. width - 2 : ~list_maze[r][c].right
    /\ \E r \in 0 .. height - 2 : \E c \in 0 .. width - 1 : list_maze[r][c].bottom
    /\ \E r \in 0 .. height - 2 : \E c \in 0 .. width - 1 : ~list_maze[r][c].bottom

\* C6: in a built maze every cell of column 0 has a left wall, every cell of
\* the last column a right wall, every cell of row 0 a top wall and every
\* cell of the last row a bottom wall.
C6_Boundary ==
    Built =>
        /\ \A r \in 0 .. height - 1 :
              list_maze[r][0].left /\ list_maze[r][width - 1].right
        /\ \A c \in 0 .. width - 1 :
              list_maze[0][c].top /\ list_maze[height - 1][c].bottom

\* a built maze in whose last row finish_row removed a wall
C6_Witness ==
    /\ Built
    /\ Len0(list_maze) = height
    /\ \E c \in 0 .. width - 2 : ~list_maze[height - 1][c].right

\* C10: the graph as_graph returns for a built maze is a symmetric relation
\* on the cells of the maze: every neighbour b of a key a is a key, and a is
\* a neighbour of b.
C10_GraphSymmetric ==
    pc = "graph" =>
        \A a \in DOMAIN graph_maze : \A b \in graph_maze[a] :
            /\ b \in DOMAIN graph_maze
            /\ b \in Cells
            /\ a \in graph_maze[b]

\* as_graph returned a graph in which a cell has a neighbour in its row and
\* a cell has a neighbour in its column
C10_Witness ==
    /\ pc = "graph"
    /\ \E a \in DOMAIN graph_maze : \E b \in graph_maze[a] : a[1] = b[1]
    /\ \E a \in DOMAIN graph_maze : \E b \in graph_maze[a] : a[2] = b[2]

----------------------------------------------------------------------------
(* The clamp of the requested sizes *)

\* the size that a request of v cells must give: v, but at least 3 and at
\* most 100
Supported(v) == IF v < 3 THEN 3 ELSE IF v > 100 THEN 100 ELSE v

\* C7: for every requested width and height, also below 3 and above 100,
\* the maze that build_maze returns has min(max(height, 3), 100) rows of
\* min(max(width, 3), 100) cells each; no request is rejected.  (Every row
\* frozen on the way has that many cells, too.)
C7_ClampedSize ==
    /\ pc # "init" =>
        /\ width = Supported(args.width)
        /\ height = Supported(args.height)
        /\ \A r \in DOMAIN list_maze :
              DOMAIN list_maze[r] = 0 .. Supported(args.width) - 1
    /\ Built => DOMAIN list_maze = 0 .. Supported(args.height) - 1

\* a maze was built for a width above the range and a height below it
C7_Witness ==
    /\ Built
    /\ args.width > 100
    /\ args.height < 3
    /\ Len0(list_maze) = 3
    /\ Len0(list_maze[2]) = 100

----------------------------------------------------------------------------
(* Two runs with the same random outcomes *)

\* C8: two runs of build_maze with the same dimensions that receive the
\* same random outcomes are in the same state after every step, whatever
\* the order in which each run iterates its sets: the same frozen rows, the
\* same working row and the same sets; so they return identical mazes.
C8_Deterministic ==
    /\ twin.list_maze = list_maze
    /\ pc # "init" => twin.row = row /\ twin.sets = sets

\* both runs have built a maze, and in its first row a set of two or more
\* cells had a bottom wall placed by a roll
C8_Witness ==
    /\ pc = "built"
    /\ Len0(twin.list_maze) = height
    /\ \E c \in 0 .. width - 2 :
          ~list_maze[0][c].right /\ list_maze[0][c].bottom

----------------------------------------------------------------------------
(* Properties of solve_maze *)

\* the goal can be reached from the start in the graph
Reachable == out \in ReachFrom(graph_maze, {entry})

\* breadth-first search: the number of edges of a shortest path from the
\* cells of frontier, which are n edges from the start, to goal
RECURSIVE BreadthFirst(_, _, _, _, _)
BreadthFirst(G, frontier, seen, goal, n) ==
    IF goal \in frontier THEN n
    ELSE IF frontier = {} THEN -1
    ELSE LET next == (UNION {G[c] : c \in frontier}) \ seen
         IN  BreadthFirst(G, next, seen \cup next, goal, n + 1)

\* C2: on a symmetric graph of orthogonally adjacent cells, with or without
\* cycles, the route solve_maze returns for a reachable goal has as many
\* edges as a breadth-first shortest path from the start to the goal.
C2_ShortestRoute ==
    (pc = "returned" /\ Reachable) =>
        Len(route) - 1 = BreadthFirst(graph_maze, {entry}, {entry}, out, 0)

\* solve_maze returned a route of three or more edges in a graph in which
\* a longer way from the start to the goal exists as well: the start has two
\* neighbours from which the goal is reached without passing the start
C2_Witness ==
    /\ pc = "returned"
    /\ Reachable
    /\ Len(route) >= 4
    /\ \E a \in graph_maze[entry] : \E b \in graph_maze[entry] \ {a} :
        LET G == [c \in DOMAIN graph_maze |-> graph_maze[c] \ {entry}]
        IN  out \in ReachFrom(G, {a}) /\ out \in ReachFrom(G, {b})

\* C3: the route solve_maze returns for a reachable goal begins with the
\* start, ends with the goal, holds no coordinate twice, and each
\* coordinate of it is a neighbour in the graph of the one before it.
C3_RouteValid ==
    (pc = "returned" /\ Reachable) =>
        /\ Len(route) >= 1
        /\ route[1] = entry
        /\ route[Len(route)] = out
        /\ \A m \in 1 .. Len(route) : \A n \in 1 .. Len(route) :
              route[m] = route[n] => m = n
        /\ \A n \in 1 .. Len(route) - 1 : route[n + 1] \in graph_maze[route[n]]

\* solve_maze returned a route of three or more coordinates
C3_Witness ==
    /\ pc = "returned"
    /\ Reachable
    /\ Len(route) >= 3
    /\ entry # out

\* C4: when the goal cannot be reached from the start (a goal that is no key
\* of the graph included), solve_maze reports that no route exists: what it
\* returns is not a sequence of coordinates of the graph.
C4_UnreachableReported ==
    (pc = "returned" /\ ~Reachable) =>
        ~(/\ Len(route) >= 1
          /\ \A n \in 1 .. Len(route) : route[n] \in DOMAIN graph_maze)

\* C9: solve_maze from a key c of the graph to c itself returns the route
\* that holds c alone.
C9_RouteToItself ==
    (pc = "returned" /\ entry = out) => route = <<entry>>

\* solve_maze returned for a start that is the goal and has neighbours
C9_Witness ==
    /\ pc = "returned"
    /\ entry = out
    /\ entry \in DOMAIN graph_maze
    /\ graph_maze[entry] # {}

----------------------------------------------------------------------------
(* The coordinates the command line gives to solve_maze *)

\* the position v moved into a grid side of n cells
Within(v, n) == IF v < 0 THEN 0 ELSE IF v > n - 1 THEN n - 1 ELSE v

\* C11: solve_maze is called with the start (0, 0) and the goal
\* (height - 1, width - 1) when the command line gives no coordinates, for
\* every maze size; a coordinate that is given is moved into the grid, and
\* one that is left out takes the value of that default.
C11_CliCoordinates ==
    pc = "solve_maze" =>
        LET a == args.argv
        IN  /\ entry = <<IF Len(a) >= 2 THEN Within(a[2], height) ELSE 0,
                         IF Len(a) >= 1 THEN Within(a[1], width) ELSE 0>>
            /\ out = <<IF Len(a) >= 4 THEN Within(a[4], height) ELSE height - 1,
                       IF Len(a) >= 3 THEN Within(a[3], width) ELSE width - 1>>

----------------------------------------------------------------------------
(* Properties of the row set tracker and of the row methods *)

\* C12: after every completed operation of the tracker (new_set, union_sets,
\* the removal and new_set of update_row) the non-empty sets of self.sets
\* partition the cells of the working row: every cell is a member of the set
\* bound to its mark, and every member of a set has the key of the set as
\* its mark, so no cell is in two sets and none is in no set.
C12_Partition ==
    /\ \A c \in DOMAIN row :
          row[c].mark \in DOMAIN sets /\ c \in sets[row[c].mark]
    /\ \A m \in DOMAIN sets : \A c \in sets[m] :
          c \in DOMAIN row /\ row[c].mark = m

\* update_row has ended on a row in which it moved a cell to a set of its
\* own and left two cells together in the set they had
C12_Witness ==
    /\ pc = "add_right_walls" /\ k = 0 /\ i >= 1
    /\ \E c \in DOMAIN row : row[c].top
    /\ \E m \in DOMAIN sets : Cardinality(sets[m]) >= 2

\* add_bottom_walls has ended on the working row
AfterBottomWalls ==
    \/ pc = "append" /\ Phase(i) # "end"
    \/ pc = "finish_row" /\ k = 0

\* C13: when add_bottom_walls has ended on a row (on the last row: before
\* finish_row), every non-empty set of the row has a member whose bottom is
\* open, for every outcome of the rolls.
C13_PathDown ==
    AfterBottomWalls =>
        \A m \in DOMAIN sets :
            sets[m] # {} => \E c \in sets[m] : ~row[c].bottom

\* add_bottom_walls has ended on a row after the first in which a set of two
\* or more cells has one open bottom only, that of its rightmost cell
C13_Witness ==
    /\ AfterBottomWalls
    /\ i >= 1
    /\ \E m \in DOMAIN sets :
        /\ Cardinality(sets[m]) >= 2
        /\ \E c \in sets[m] :
            /\ ~row[c].bottom
            /\ \A d \in sets[m] \ {c} : d < c /\ row[d].bottom

\* the cells of columns a and b of the row R are in the same set
SameSet(R, a, b) == R[a].mark = R[b].mark

\* the decision on the wall right of column k in this step
C14_Decision ==
    /\ pc = "add_right_walls" =>
        /\ ~row'[k].right =>
              ~SameSet(row, k, k + 1) /\ SameSet(row', k, k + 1)
        /\ SameSet(row, k, k + 1) => row'[k].right /\ row'[k + 1].left
    /\ pc = "finish_row" =>
        /\ (row[k].right /\ ~row'[k].right) =>
              ~SameSet(row, k, k + 1) /\ SameSet(row', k, k + 1)
        /\ SameSet(row, k, k + 1) =>
              row'[k].right = row[k].right /\ row'[k + 1].left = row[k + 1].left

\* a wall right of a column that is decided, between cells of one set, is
\* there after this step, and in the row that this step freezes
C14_Preserved ==
    pc \in {"add_right_walls", "add_bottom_walls", "finish_row", "append"} =>
        \A c \in 0 .. width - 2 :
            ( /\ pc = "add_right_walls" => c < k
              /\ SameSet(row, c, c + 1)
              /\ row[c].right ) =>
                /\ SameSet(row', c, c + 1)
                /\ row'[c].right /\ row'[c + 1].left
                /\ pc = "append" =>
                      list_maze'[i][c].right /\ list_maze'[i][c + 1].left

\* C14: a step of add_right_walls leaves the wall between two adjacent cells
\* open, and a step of finish_row removes it, only when the two cells are in
\* distinct sets before the step, and they are in one set after it; when
\* they are in the same set before the step of add_right_walls, the wall is
\* placed, and no later step on the row removes a wall between cells of one
\* set, so the frozen row has it.
C14_NoCarveWithinSet == [][C14_Decision /\ C14_Preserved]_vars

\* add_right_walls has placed the wall between the first two cells of a row
\* after the first, which the rows above had joined in one set
C14_Witness ==
    /\ pc = "add_right_walls" /\ k = 1 /\ i >= 1
    /\ SameSet(row, 0, 1)
    /\ row[0].right /\ row[1].left

\* update_row has ended on a row that follows a frozen row
AfterUpdateRow == pc = "add_right_walls" /\ k = 0 /\ i >= 1

\* the state update_row leaves
C15_Updated ==
    AfterUpdateRow =>
        \A c \in 0 .. width - 1 :
            /\ row[c].top = list_maze[i - 1][c].bottom
            /\ ~row[c].bottom
            /\ list_maze[i - 1][c].bottom => sets[row[c].mark] = {c}

\* the step that freezes a row leaves the row and the sets to update_row as
\* they are, and no step of update_row joins or separates two cells whose
\* cells above have open bottoms
C15_Inherited ==
    /\ pc = "append" => row' = row /\ sets' = sets
    /\ pc = "update_row" =>
        \A a, b \in 0 .. width - 1 :
            (~list_maze[i - 1][a].bottom /\ ~list_maze[i - 1][b].bottom) =>
                (SameSet(row', a, b) <=> SameSet(row, a, b))

\* C15: when update_row has ended on a row that follows a frozen row, the
\* top of each cell is the frozen bottom of the cell above it, the bottom of
\* each cell is false, and a cell under a bottom wall is the only member of
\* its set; two cells under open bottoms are in one set exactly when the
\* cells above were in one set when their row was frozen: the sets pass
\* unchanged from the freeze to update_row, and each step of update_row
\* keeps the relation between such cells.
C15_UpdateRow == [][C15_Updated' /\ C15_Inherited]_vars

\* update_row has ended on a row in which a cell lies under a bottom wall
\* and two other cells, under open bottoms, are in one set
C15_Witness ==
    /\ AfterUpdateRow
    /\ \E c \in 0 .. width - 1 : row[c].top
    /\ \E a, b \in 0 .. width - 1 :
          a # b /\ ~row[a].top /\ ~row[b].top /\ SameSet(row, a, b)

\* finish_row has ended on the last row
AfterFinishRow ==
    \/ pc = "append" /\ i = height - 1
    \/ Built

\* C16: when finish_row has ended on the last row, all width cells of the
\* row are in one set: no two cells of it have different marks, and the set
\* bound to that mark holds every column.
C16_LastRowOneSet ==
    AfterFinishRow =>
        /\ \A a, b \in 0 .. width - 1 : SameSet(row, a, b)
        /\ sets[row[0].mark] = 0 .. width - 1

\* finish_row has ended on a last row in which update_row had put a cell
\* into a set of its own
C16_Witness ==
    /\ pc = "append" /\ i = height - 1
    /\ \E c \in 0 .. width - 1 : row[c].top
    /\ Cardinality(sets[row[0].mark]) = width

\* the marks of the cells are labels of 1 .. width, and at most width labels
\* are bound to sets that are not empty
C17_InRange ==
    /\ \A c \in DOMAIN row : row[c].mark \in 1 .. width
    /\ Cardinality({m \in DOMAIN sets : sets[m] # {}}) <= width

\* a step that calls new_set for the cell of column k gives it a label that
\* was bound to no cell, below which every label is bound to a set that is
\* not empty
C17_Smallest ==
    (pc = "create_row" \/ (pc = "update_row" /\ row[k].bottom)) =>
        LET mark == row'[k].mark
        IN  /\ mark >= 1
            /\ sets'[mark] = {k}
            /\ \A m \in 1 .. mark - 1 : m \in DOMAIN sets' /\ sets'[m] # {}

\* C17: new_set gives the cell the smallest label from 1 on that is not
\* bound to a set with members; so in every state of the generation the mark
\* of every cell is in 1 .. width and at most width labels are bound to sets
\* that are not empty.
C17_SmallestLabel == [][C17_InRange' /\ C17_Smallest]_vars

\* update_row has ended on a row in which new_set gave a cell a label that a
\* union had freed: a label below the one the cell was created with
C17_Witness ==
    /\ AfterUpdateRow
    /\ \E c \in 0 .. width - 1 : row[c].top /\ row[c].mark < c + 1

\* C19: a row that build_next_row has appended to list_maze stays in
\* list_maze with every wall flag as it was appended, whatever the later
\* steps do to the cells of the working row.
C19_FrozenRows ==
    [][\A r \in DOMAIN list_maze :
          r \in DOMAIN list_maze' /\ list_maze'[r] = list_maze[r]]_vars

\* the row below a frozen row is complete, and the cells of the working row
\* have other right and bottom walls than they had when the row was frozen
C19_Witness ==
    /\ pc = "append" /\ i >= 1
    /\ \E c \in 0 .. width - 1 : row[c].right # list_maze[i - 1][c].right
    /\ \E c \in 0 .. width - 1 : row[c].bottom # list_maze[i - 1][c].bottom

\* C20: when add_bottom_walls rolls a bottom wall for a cell of a set of
\* more than one member and leaves the bottom of the cell open all the same,
\* the cell is the last member of its set from the left and every other
\* member of the set has a bottom wall; so a set of more than one member
\* gets at most one bottom forced open in a row.
C20_ForcedOnlyLast ==
    pc = "add_bottom_walls" =>
        \A roll \in Rolls : \A r \in add_bottom_walls(row, sets, k, roll) :
            LET cell_set == sets[row[k].mark]
            IN  (roll >= 50 /\ Cardinality(cell_set) > 1 /\ ~r.row[k].bottom) =>
                    /\ \A d \in cell_set : d <= k
                    /\ \A d \in cell_set \ {k} : row[d].bottom

\* add_bottom_walls has passed the last member of a set of two or more
\* cells on a row after the first: the bottom of that member is open and
\* every other member has a bottom wall
C20_Witness ==
    /\ pc = "add_bottom_walls" /\ k >= 2 /\ i >= 1
    /\ LET cell_set == sets[row[k - 1].mark]
       IN  /\ Cardinality(cell_set) >= 2
           /\ \A d \in cell_set : d <= k - 1
           /\ ~row[k - 1].bottom
           /\ \A d \in cell_set \ {k - 1} : row[d].bottom

----------------------------------------------------------------------------
(* Termination of solve_maze *)

\* C18: solve_maze returns, for every graph and every start that is a key
\* of it, whether the goal can be reached or not (a goal that is no key of
\* the graph included): the search loop ends and the walk along came_from
\* reaches the start.
C18_Terminates == <>(pc = "returned")

\* solve_maze has returned for a goal that cannot be reached from the start,
\* in a graph in which the start has a neighbour
C18_Witness ==
    /\ pc = "returned"
    /\ ~Reachable
    /\ graph_maze[entry] # {}

====
